---------------------------- MODULE Spec2Model ----------------------------
(***************************************************************************)
(* panoptes-data: the structured-path parser and identifier model          *)
(* (ImagePathInfo / ObservationPathInfo) and the PATH_MATCHER grammar.      *)
(*                                                                         *)
(* A Python str is a sequence of one-character strings.  Every Python      *)
(* value a field, an argument or a result can hold is a record             *)
(* [k, s, t]: k its type ("None", "str", "Time", "Path", or "absent" for a  *)
(* mapping key that is not there), s its characters, t its date fields.    *)
(***************************************************************************)
EXTENDS Integers, Sequences, FiniteSets

(***************************************************************************)
(* Characters and character classes of the grammar.                        *)
(***************************************************************************)
DIGITS == <<"0", "1", "2", "3", "4", "5", "6", "7", "8", "9">>

Digit == {DIGITS[i] : i \in 1..10}

CamChar == Digit \cup {"a", "b", "c", "d", "e", "f", "g",
                       "A", "B", "C", "D", "E", "F", "G"}

Sep == {"/", "_"}

NL == "\n"

\* The sizes the pattern fixes: PAN\d{3}, {6}, [0-9]{8}T[0-9]{6}.
UnitDigits == 3

CamLen == 6

DateDigits == 8

ClockDigits == 6

UnitLen == 3 + UnitDigits

StampLen == DateDigits + 1 + ClockDigits

FullIdLen == UnitLen + 1 + CamLen + 1 + StampLen + 1

(***************************************************************************)
(* The pieces of PATH_MATCHER, each at a position of the string s.         *)
(***************************************************************************)
\* (?P<unit_id>PAN\d{3}) at position u
UnitAt(s, u) ==
    /\ u >= 1
    /\ u + UnitLen - 1 <= Len(s)
    /\ s[u] = "P" /\ s[u + 1] = "A" /\ s[u + 2] = "N"
    /\ \A k \in 3..(UnitLen - 1) : s[u + k] \in Digit

\* [/_] at position i
SepAt(s, i) == i >= 1 /\ i <= Len(s) /\ s[i] \in Sep

\* (?P<camera_id>[a-gA-G0-9]{6}) at position c
CamAt(s, c) ==
    /\ c >= 1
    /\ c + CamLen - 1 <= Len(s)
    /\ \A k \in 0..(CamLen - 1) : s[c + k] \in CamChar

\* [0-9]{8}T[0-9]{6} at position i
StampAt(s, i) ==
    /\ i >= 1
    /\ i + StampLen - 1 <= Len(s)
    /\ \A k \in 0..(DateDigits - 1) : s[i + k] \in Digit
    /\ s[i + DateDigits] = "T"
    /\ \A k \in (DateDigits + 1)..(StampLen - 1) : s[i + k] \in Digit

\* PAN\d{3}_[a-gA-G0-9]{6}_[0-9]{8}T[0-9]{6}_ at position i
FullIdAt(s, i) ==
    /\ UnitAt(s, i)
    /\ i + FullIdLen - 1 <= Len(s)
    /\ s[i + UnitLen] = "_"
    /\ CamAt(s, i + UnitLen + 1)
    /\ s[i + UnitLen + 1 + CamLen] = "_"
    /\ StampAt(s, i + UnitLen + CamLen + 2)
    /\ s[i + FullIdLen - 1] = "_"

\* .* over s[i..j]: any character but a newline
DotRun(s, i, j) == \A k \in i..j : s[k] # NL

\* (?P<post_info>.*)?$ from position e: the rest holds no newline, except
\* that $ also matches just before a newline that ends the string.
PostInfoAt(s, e) == DotRun(s, e, Len(s) - 1)

\* [/_]?(?P<image_time>[0-9]{8}T[0-9]{6}) from position y: where image_time
\* starts, 0 when this part does not match.  The separator is tried first.
ImageAfter(s, y) ==
    IF SepAt(s, y) /\ StampAt(s, y + 1) THEN y + 1
    ELSE IF StampAt(s, y) THEN y
    ELSE 0

\* ImageStart with the full image id made mandatory
MutImageStartFullIdRequired(s, x) ==
    IF FullIdAt(s, x) THEN ImageAfter(s, x + FullIdLen) ELSE 0

\* (?P<full_image_id>...)?[/_]?(?P<image_time>...) from position x: where
\* image_time starts, 0 when this part does not match.  The group is tried
\* first; without it the next character would have to be a separator or a
\* digit, which the P of a full image id is not.
ImageStart(s, x) ==
    IF FullIdAt(s, x) THEN ImageAfter(s, x + FullIdLen) ELSE ImageAfter(s, x)

\* image_time at position z, then (?P<post_info>.*)?$
ImageAndPost(s, z) == z # 0 /\ PostInfoAt(s, z + StampLen)

\* [/_]camera_id[/_]sequence_time[/_] ... image_time post_info $ with the
\* camera_id at position c
TailFrom(s, c) ==
    /\ SepAt(s, c - 1)
    /\ CamAt(s, c)
    /\ SepAt(s, c + CamLen)
    /\ StampAt(s, c + CamLen + 1)
    /\ SepAt(s, c + CamLen + 1 + StampLen)
    /\ ImageAndPost(s, ImageStart(s, c + CamLen + StampLen + 2))

Max(S) == CHOOSE x \in S : \A y \in S : y <= x

Min(S) == CHOOSE x \in S : \A y \in S : x <= y

\* (?P<field_name>.*)? from position f: the positions at which camera_id
\* can start after it for the rest of the pattern to match
CamStarts(s, f) ==
    {c \in (f + 1)..Len(s) : TailFrom(s, c) /\ DotRun(s, f, c - 2)}

\* Greedy: the longest field_name, which is the last camera_id position
Longest(f, starts) == IF starts = {} THEN <<0, 0>> ELSE <<f, Max(starts)>>

\* /?(?P<field_name>.*)? after a unit_id that ends at a - 1: the pair
\* <<start of field_name, start of camera_id>>, <<0, 0>> when nothing
\* matches.  The slash is tried first, then the longest field_name.
FieldAndCam(s, a) ==
    IF a <= Len(s) /\ s[a] = "/" /\ CamStarts(s, a + 1) # {}
    THEN Longest(a + 1, CamStarts(s, a + 1))
    ELSE Longest(a, CamStarts(s, a))

\* The positions u at which unit_id can start for the whole pattern to match
UnitStarts(s) ==
    {u \in 1..Len(s) : /\ UnitAt(s, u)
                       /\ DotRun(s, 1, u - 1)
                       /\ FieldAndCam(s, u + UnitLen)[2] # 0}

\* (?P<pre_info>.*)? is greedy: the match takes the last such position.
UnitStart(s) == Max(UnitStarts(s))

NoMatch == [matched |-> FALSE, unit_id |-> <<>>, field_name |-> <<>>,
            camera_id |-> <<>>, sequence_time |-> <<>>, image_time |-> <<>>]

\* The named groups of the match whose unit_id starts at u, field_name at f,
\* camera_id at c and image_time at z
Groups(s, u, f, c, z) ==
    [matched       |-> TRUE,
     unit_id       |-> SubSeq(s, u, u + UnitLen - 1),
     field_name    |-> SubSeq(s, f, c - 2),
     camera_id     |-> SubSeq(s, c, c + CamLen - 1),
     sequence_time |-> SubSeq(s, c + CamLen + 1, c + CamLen + StampLen),
     image_time    |-> SubSeq(s, z, z + StampLen - 1)]

GroupsFrom(s, u, fc) ==
    Groups(s, u, fc[1], fc[2], ImageStart(s, fc[2] + CamLen + StampLen + 2))

\* PATH_MATCHER.match(s): the named groups of the match, or NoMatch (None)
PATH_MATCHER_match(s) ==
    IF UnitStarts(s) = {} THEN NoMatch
    ELSE GroupsFrom(s, UnitStart(s), FieldAndCam(s, UnitStart(s) + UnitLen))

(***************************************************************************)
(* Python values.                                                          *)
(***************************************************************************)
NoneV == [k |-> "None", s |-> <<>>, t |-> <<>>]

\* A key that a mapping does not hold, a result that was never produced
Absent == [k |-> "absent", s |-> <<>>, t |-> <<>>]

Str(chars) == [k |-> "str", s |-> chars, t |-> <<>>]

\* astropy Time, UTC, whole seconds: <<year, month, day, hour, minute, second>>
TimeV(fields) == [k |-> "Time", s |-> <<>>, t |-> fields]

\* pathlib.Path, by its string
PathV(chars) == [k |-> "Path", s |-> chars, t |-> <<>>]

NoError == [kind |-> "none", msg |-> <<>>]

Raise(kind, msg) == [obj |-> <<>>, err |-> [kind |-> kind, msg |-> msg]]

Return(o) == [obj |-> <<o>>, err |-> NoError]

\* dateutil's ParserError is a subclass of ValueError
IsValueError(e) == e.kind \in {"ValueError", "ParserError"}

(***************************************************************************)
(* Timestamps: dateutil's parse and panoptes.utils.time.flatten_time.      *)
(***************************************************************************)
RECURSIVE Digits(_, _)
\* n as w zero-padded decimal digits
Digits(n, w) == IF w = 0 THEN <<>>
                ELSE Append(Digits(n \div 10, w - 1), DIGITS[(n % 10) + 1])

DigitVal(c) == CHOOSE i \in 0..9 : DIGITS[i + 1] = c

RECURSIVE Num(_)
\* int() of a string of decimal digits
Num(s) == IF s = <<>> THEN 0
          ELSE 10 * Num(SubSeq(s, 1, Len(s) - 1)) + DigitVal(s[Len(s)])

IsLeap(y) == (y % 4 = 0 /\ y % 100 # 0) \/ y % 400 = 0

DaysIn(y, m) == IF m = 2 THEN (IF IsLeap(y) THEN 29 ELSE 28)
                ELSE IF m \in {4, 6, 9, 11} THEN 30 ELSE 31

\* datetime's own range checks, which dateutil reports as a ParserError
ValidDate(f) ==
    /\ f[1] \in 1..9999
    /\ f[2] \in 1..12
    /\ f[3] \in 1..DaysIn(f[1], f[2])
    /\ f[4] \in 0..23
    /\ f[5] \in 0..59
    /\ f[6] \in 0..59

\* Time(parse_date(s)).  dateutil reads YYYYMMDD, skips the T and reads
\* HHMMSS; any other text of the model's inputs ("foobar", the empty string)
\* is not a date for it.  fields is <<>> when the parse raises.
parse_date(s) ==
    IF Len(s) = StampLen /\ StampAt(s, 1)
    THEN LET f == <<Num(SubSeq(s, 1, 4)), Num(SubSeq(s, 5, 6)), Num(SubSeq(s, 7, 8)),
                    Num(SubSeq(s, 10, 11)), Num(SubSeq(s, 12, 13)),
                    Num(SubSeq(s, 14, 15))>>
         IN  IF ValidDate(f) THEN [ok |-> TRUE, fields |-> f]
             ELSE [ok |-> FALSE, fields |-> <<>>]
    ELSE [ok |-> FALSE, fields |-> <<>>]

\* Time.isot: YYYY-MM-DDTHH:MM:SS.sss
Isot(f) ==
    Digits(f[1], 4) \o <<"-">> \o Digits(f[2], 2) \o <<"-">> \o Digits(f[3], 2)
    \o <<"T">> \o Digits(f[4], 2) \o <<":">> \o Digits(f[5], 2) \o <<":">>
    \o Digits(f[6], 2) \o <<".", "0", "0", "0">>

\* str.replace(ch, '')
Remove(s, ch) == SelectSeq(s, LAMBDA c : c # ch)

\* str.split('.')[0]
BeforeFirst(s, ch) ==
    LET hits == {i \in 1..Len(s) : s[i] = ch}
    IN  IF hits = {} THEN s ELSE SubSeq(s, 1, Min(hits) - 1)

\* flatten_time(t) = t.isot.replace('-', '').replace(':', '').split('.')[0];
\* only a Time has .isot: anything else raises AttributeError (ok FALSE).
flatten_time(v) ==
    IF v.k = "Time"
    THEN [ok |-> TRUE, s |-> BeforeFirst(Remove(Remove(Isot(v.t), "-"), ":"), ".")]
    ELSE [ok |-> FALSE, s |-> <<>>]

(***************************************************************************)
(* ImagePathInfo / ObservationPathInfo: construction.                      *)
(***************************************************************************)
\* The dataclass's defaults: every field None
Defaults == [unit_id |-> NoneV, camera_id |-> NoneV, field_name |-> NoneV,
             sequence_time |-> NoneV, image_time |-> NoneV, path |-> NoneV]

\* f'Invalid path received: {self.path}'
InvalidPathPrefix ==
    <<"I", "n", "v", "a", "l", "i", "d", " ", "p", "a", "t", "h", " ",
      "r", "e", "c", "e", "i", "v", "e", "d", ":", " ">>

InvalidPathMsg(path) == InvalidPathPrefix \o path

\* Assign that keeps the two timestamp tokens as they are
MutAssignKeepsTokens(self, m, st, it) ==
    Return([self EXCEPT !.unit_id = Str(m.unit_id),
                        !.camera_id = Str(m.camera_id),
                        !.field_name = Str(m.field_name),
                        !.sequence_time = Str(m.sequence_time),
                        !.image_time = Str(m.image_time)])

\* Assign with the two timestamps exchanged
MutAssignSwapsTimes(self, m, st, it) ==
    IF ~st.ok \/ ~it.ok THEN Raise("ParserError", <<>>)
    ELSE Return([self EXCEPT !.unit_id = Str(m.unit_id),
                             !.camera_id = Str(m.camera_id),
                             !.field_name = Str(m.field_name),
                             !.sequence_time = TimeV(it.fields),
                             !.image_time = TimeV(st.fields)])

\* The five assignments of __post_init__, the two timestamps through
\* Time(parse_date(...)): a date that does not parse raises ParserError.
Assign(self, m, st, it) ==
    IF ~st.ok \/ ~it.ok THEN Raise("ParserError", <<>>)
    ELSE Return([self EXCEPT !.unit_id = Str(m.unit_id),
                             !.camera_id = Str(m.camera_id),
                             !.field_name = Str(m.field_name),
                             !.sequence_time = TimeV(st.fields),
                             !.image_time = TimeV(it.fields)])

\* Matched with a message that leaves the path out
MutMatchedNoMessagePath(self, m) ==
    IF ~m.matched THEN Raise("ValueError", InvalidPathPrefix)
    ELSE Assign(self, m, parse_date(m.sequence_time), parse_date(m.image_time))

\* if path_match is None: raise ValueError(...), else the assignments
Matched(self, m) ==
    IF ~m.matched THEN Raise("ValueError", InvalidPathMsg(self.path.s))
    ELSE Assign(self, m, parse_date(m.sequence_time), parse_date(m.image_time))

\* __post_init__ on the object the generated __init__ filled from the
\* keyword arguments: the returned object, or the exception raised.
post_init(self) ==
    IF self.path.k = "None" THEN Return(self)
    \* re's match() takes a str only
    ELSE IF self.path.k # "str" THEN Raise("TypeError", <<>>)
    ELSE Matched(self, PATH_MATCHER_match(self.path.s))

\* cls(path=p)
NewFromPath(p) == post_init([Defaults EXCEPT !.path = p])

\* cls(unit_id=..., camera_id=..., field_name=..., sequence_time=...,
\* image_time=...): kw holds the keyword arguments given, None for the rest.
NewFromFields(kw) == post_init([kw EXCEPT !.path = NoneV])

RECURSIVE Split(_, _)
\* str.split(ch)
Split(s, ch) ==
    LET hits == {i \in 1..Len(s) : s[i] = ch}
    IN  IF hits = {} THEN <<s>>
        ELSE <<SubSeq(s, 1, Min(hits) - 1)>>
             \o Split(SubSeq(s, Min(hits) + 1, Len(s)), ch)

\* cls(unit_id=unit_id, camera_id=camera_id,
\*     sequence_time=Time(parse_date(sequence_time)),
\*     image_time=Time(parse_date(image_time)))
FromTriples(sq, im, st, it) ==
    IF ~st.ok \/ ~it.ok THEN Raise("ParserError", <<>>)
    ELSE NewFromFields([Defaults EXCEPT !.unit_id = Str(sq[1]),
                                        !.camera_id = Str(sq[2]),
                                        !.sequence_time = TimeV(st.fields),
                                        !.image_time = TimeV(it.fields)])

\* Unpack that falls back to the defaults
MutUnpackDefaults(sq, im) ==
    IF Len(sq) # 3 \/ Len(im) # 3 THEN Return(Defaults)
    ELSE FromTriples(sq, im, parse_date(sq[3]), parse_date(im[3]))

\* unit_id, camera_id, sequence_time = sequence_id.split('_') and
\* _, _, image_time = image_id.split('_'): three names each
Unpack(sq, im) ==
    IF Len(sq) # 3 \/ Len(im) # 3 THEN Raise("ValueError", <<>>)
    ELSE FromTriples(sq, im, parse_date(sq[3]), parse_date(im[3]))

\* The except ValueError branch of from_fits_header
Fallback(header) ==
    \* header['SEQID'], header['IMAGEID']
    IF header.SEQID.k = "absent" \/ header.IMAGEID.k = "absent"
    THEN Raise("KeyError", <<>>)
    \* .split of a value that is no str
    ELSE IF header.SEQID.k # "str" \/ header.IMAGEID.k # "str"
    THEN Raise("AttributeError", <<>>)
    ELSE Unpack(Split(header.SEQID.s, "_"), Split(header.IMAGEID.s, "_"))

\* try: cls(path=header['FILENAME']) except ValueError: the fallback
TryFilename(header, first) ==
    IF IsValueError(first.err) THEN Fallback(header) ELSE first

\* from_fits_header(header): header maps FILENAME, SEQID and IMAGEID to a
\* value, or to Absent for a key it does not hold.
from_fits_header(header) ==
    \* header['FILENAME'] raises KeyError, which except ValueError lets pass
    IF header.FILENAME.k = "absent" THEN Raise("KeyError", <<>>)
    ELSE TryFilename(header, NewFromPath(header.FILENAME))

(***************************************************************************)
(* Derived properties and as_path.  Each gives [ret, err]: the value        *)
(* returned, or Absent and the exception raised.                           *)
(***************************************************************************)
Gives(v) == [ret |-> v, err |-> NoError]

Fails(kind) == [ret |-> Absent, err |-> [kind |-> kind, msg |-> <<>>]]

\* What an f-string makes of a value: str(None) is 'None'
Format(v) == IF v.k = "None" THEN <<"N", "o", "n", "e">> ELSE v.s

\* f'{self.unit_id}_{self.camera_id}_{flatten_time(t)}'
UnitCamStamp(self, t) ==
    IF ~flatten_time(t).ok THEN Fails("AttributeError")
    ELSE Gives(Str(Format(self.unit_id) \o <<"_">> \o Format(self.camera_id)
                   \o <<"_">> \o flatten_time(t).s))

sequence_id(self) == UnitCamStamp(self, self.sequence_time)

image_id(self) == UnitCamStamp(self, self.image_time)

\* sep.join([unit_id, camera_id, flatten_time(sequence_time),
\* flatten_time(image_time)]): the list is built first, and join takes
\* only str items.
get_full_id(self, sep) ==
    IF ~flatten_time(self.sequence_time).ok \/ ~flatten_time(self.image_time).ok
    THEN Fails("AttributeError")
    ELSE IF self.unit_id.k # "str" \/ self.camera_id.k # "str"
    THEN Fails("TypeError")
    ELSE Gives(Str(self.unit_id.s \o Format(sep) \o self.camera_id.s \o Format(sep)
                   \o flatten_time(self.sequence_time).s \o Format(sep)
                   \o flatten_time(self.image_time).s))

\* The id property: get_full_id() with its default separator
id(self) == get_full_id(self, Str(<<"_">>))

RECURSIVE JoinWith(_, _)
\* ch.join(parts)
JoinWith(parts, ch) ==
    IF parts = <<>> THEN <<>>
    ELSE IF Len(parts) = 1 THEN parts[1]
    ELSE parts[1] \o <<ch>> \o JoinWith(Tail(parts), ch)

\* str(PurePosixPath) of the joined segments: a segment that starts with / drops the ones
\* before it; empty and '.' components go; exactly two leading slashes stay.
PosixPath(segs) ==
    LET abs    == {i \in 1..Len(segs) : segs[i] # <<>> /\ segs[i][1] = "/"}
        from   == IF abs = {} THEN 1 ELSE Max(abs)
        joined == JoinWith(SubSeq(segs, from, Len(segs)), "/")
        lead   == IF \E n \in 1..Len(joined) : joined[n] # "/"
                  THEN Min({n \in 1..Len(joined) : joined[n] # "/"}) - 1
                  ELSE Len(joined)
        root   == IF lead = 0 THEN <<>>
                  ELSE IF lead = 2 THEN <<"/", "/">> ELSE <<"/">>
        comps  == SelectSeq(Split(joined, "/"), LAMBDA c : c # <<>> /\ c # <<".">>)
    IN  IF root = <<>> /\ comps = <<>> THEN <<".">>
        ELSE root \o JoinWith(comps, "/")

\* as_path that joins base and full_path the other way round
MutAsPathBaseLast(self, base, ext) ==
    IF ~flatten_time(self.image_time).ok \/ ~flatten_time(self.sequence_time).ok
    THEN Fails("AttributeError")
    ELSE IF self.unit_id.k # "str" \/ self.camera_id.k # "str"
    THEN Fails("TypeError")
    ELSE LET image_str == IF ext.k = "None" THEN flatten_time(self.image_time).s
                          ELSE flatten_time(self.image_time).s \o <<".">> \o Format(ext)
             full_path == PosixPath(<<self.unit_id.s, self.camera_id.s,
                                      flatten_time(self.sequence_time).s, image_str>>)
         IN  IF base.k = "None" THEN Gives(PathV(full_path))
             ELSE Gives(PathV(PosixPath(<<full_path, base.s>>)))

\* as_path(base, ext)
as_path(self, base, ext) ==
    IF ~flatten_time(self.image_time).ok \/ ~flatten_time(self.sequence_time).ok
    THEN Fails("AttributeError")
    ELSE IF self.unit_id.k # "str" \/ self.camera_id.k # "str"
    THEN Fails("TypeError")
    ELSE LET image_str == IF ext.k = "None" THEN flatten_time(self.image_time).s
                          ELSE flatten_time(self.image_time).s \o <<".">> \o Format(ext)
             full_path == PosixPath(<<self.unit_id.s, self.camera_id.s,
                                      flatten_time(self.sequence_time).s, image_str>>)
         IN  IF base.k = "None" THEN Gives(PathV(full_path))
             ELSE Gives(PathV(PosixPath(<<base.s, full_path>>)))

(***************************************************************************)
(* The inputs the calls are made with.                                     *)
(***************************************************************************)
\* How many storage-prefix segments a path may start with
MaxPrefixSegs == 1

UnitId(n) == <<"P", "A", "N">> \o Digits(n, UnitDigits)

Units == {UnitId(12), UnitId(1)}

Cams == {<<"3", "5", "8", "d", "0", "f">>, <<"A", "g", "0", "G", "7", "b">>}

\* The digits of a YYYYMMDDTHHMMSS token, whether or not they name a date
StampChars(f) ==
    Digits(f[1], 4) \o Digits(f[2], 2) \o Digits(f[3], 2) \o <<"T">>
    \o Digits(f[4], 2) \o Digits(f[5], 2) \o Digits(f[6], 2)

\* Sequence timestamps: two dates, then 29 February of a common year and
\* month 13
SeqDates == {<<2018, 8, 24, 3, 59, 17>>, <<2020, 2, 29, 23, 59, 59>>,
             <<2018, 2, 29, 0, 0, 0>>, <<2018, 13, 1, 0, 0, 0>>}

\* Image timestamps: two dates, then hour 24 and second 60
ImgDates == {<<2018, 8, 24, 4, 1, 18>>, <<2018, 8, 24, 3, 59, 17>>,
             <<2018, 8, 24, 24, 0, 0>>, <<2016, 12, 31, 23, 59, 60>>}

Foobar == <<"f", "o", "o", "b", "a", "r">>

Bucket == <<"g", "s", ":", "/", "/", "b", "/">>

PrefixSegs == {Bucket, UnitId(1) \o <<"/">>}

RECURSIVE Prefixes(_)
Prefixes(n) == IF n = 0 THEN {<<>>}
               ELSE Prefixes(n - 1)
                    \cup {g \o p : g \in PrefixSegs, p \in Prefixes(n - 1)}

\* A legacy field name segment: none, a plain one, one that looks like a unit
FieldNames == {<<"H", "d", "1">>, UnitId(999)}

Suffixes == {<<>>, <<".", "f", "i", "t", "s">>}

\* unit_id_camera_id_sequence_time_
FullIdToken(unit, cam, seq) == unit \o <<"_">> \o cam \o <<"_">> \o seq \o <<"_">>

\* The storage layout, with one separator throughout
Layout(pre, unit, field, sep, cam, seq, full, img, post) ==
    pre \o unit \o (IF field = <<>> THEN <<>> ELSE <<"/">> \o field)
    \o <<sep>> \o cam \o <<sep>> \o seq \o <<sep>> \o full \o img \o post

\* Every shape of the layout, around one camera and one pair of dates
ShapePaths ==
    {Layout(pre, unit, field, sep, cam, StampChars(<<2018, 8, 24, 3, 59, 17>>),
            IF redundant
            THEN FullIdToken(unit, cam, StampChars(<<2018, 8, 24, 3, 59, 17>>))
            ELSE <<>>,
            StampChars(<<2018, 8, 24, 4, 1, 18>>), post) :
        pre \in Prefixes(MaxPrefixSegs), unit \in Units,
        field \in FieldNames \cup {<<>>}, sep \in Sep, cam \in Cams,
        redundant \in BOOLEAN, post \in Suffixes}

\* Every pair of timestamp tokens, in the plain four-segment layout
DatePaths ==
    {Layout(<<>>, UnitId(12), <<>>, sep, <<"3", "5", "8", "d", "0", "f">>,
            StampChars(sd),
            IF redundant
            THEN FullIdToken(UnitId(12), <<"3", "5", "8", "d", "0", "f">>, StampChars(sd))
            ELSE <<>>,
            StampChars(id0), <<>>) :
        sep \in Sep, sd \in SeqDates, id0 \in ImgDates, redundant \in BOOLEAN}

LayoutPaths == ShapePaths \cup DatePaths

Cam1 == <<"3", "5", "8", "d", "0", "f">>

Seq1 == StampChars(<<2018, 8, 24, 3, 59, 17>>)

Img1 == StampChars(<<2018, 8, 24, 4, 1, 18>>)

Canonical1 == Layout(<<>>, UnitId(12), <<>>, "/", Cam1, Seq1, <<>>, Img1, <<>>)

\* Strings off the layout: no unit token, a short or misplaced timestamp,
\* a character outside a class, newlines, doubled or missing separators,
\* and a second camera/timestamp run after the first.
OddPaths ==
    {<<>>, Foobar,
     <<"P", "A", "N", "0", "1", "x", "/">> \o Cam1 \o <<"/">> \o Seq1 \o <<"/">> \o Img1,
     <<"p", "a", "n", "0", "1", "2", "/">> \o Cam1 \o <<"/">> \o Seq1 \o <<"/">> \o Img1,
     Cam1 \o <<"/">> \o Seq1 \o <<"/">> \o Img1,
     UnitId(12) \o <<"/">> \o Cam1 \o <<"/">> \o Seq1,
     UnitId(12) \o <<"/">> \o Cam1 \o <<"/">> \o Seq1 \o <<"/">>,
     Seq1 \o <<"/">> \o Img1 \o <<"/">> \o UnitId(12) \o <<"/">> \o Cam1,
     Seq1 \o <<"/">> \o UnitId(12) \o <<"/">> \o Cam1 \o <<"/">> \o Img1,
     UnitId(12) \o <<"/">> \o Cam1 \o <<"/">> \o Tail(Seq1) \o <<"/">> \o Img1,
     UnitId(12) \o <<"/">> \o Cam1 \o <<"/">> \o Seq1 \o <<"/">> \o SubSeq(Img1, 1, 14),
     UnitId(12) \o <<"/">> \o Cam1 \o <<"/">> \o Remove(Seq1, "T") \o <<"/">> \o Img1,
     UnitId(12) \o <<"/", "3", "5", "h", "d", "0", "f", "/">> \o Seq1 \o <<"/">> \o Img1,
     UnitId(12) \o <<"/">> \o SubSeq(Cam1, 1, 5) \o <<"/">> \o Seq1 \o <<"/">> \o Img1,
     UnitId(12) \o <<"-">> \o Cam1 \o <<"-">> \o Seq1 \o <<"-">> \o Img1,
     UnitId(12) \o <<"/">> \o Cam1 \o <<"/">> \o Seq1 \o Img1,
     UnitId(12) \o <<"/">> \o Cam1 \o <<"/">> \o Seq1 \o <<"/", "/">> \o Img1,
     UnitId(12) \o <<"/", "/">> \o Cam1 \o <<"/">> \o Seq1 \o <<"/">> \o Img1,
     UnitId(12) \o Cam1 \o <<"/">> \o Seq1 \o <<"/">> \o Img1,
     <<"x", NL>> \o Canonical1,
     Canonical1 \o <<NL>>,
     Canonical1 \o <<NL, "x">>,
     UnitId(12) \o <<"/", "x", NL, "y", "/">> \o Cam1 \o <<"/">> \o Seq1 \o <<"/">> \o Img1,
     Canonical1 \o <<"/", "A", "g", "0", "G", "7", "b", "/">> \o Img1 \o <<"/">> \o Seq1,
     UnitId(12) \o <<"/">> \o Cam1 \o <<"/">> \o Seq1 \o <<"/">>
       \o FullIdToken(UnitId(13), <<"a", "a", "a", "a", "a", "a">>, Img1) \o Img1}

\* path= arguments: a str, or a pathlib.Path (the annotation allows both)
PathArgs == {Str(p) : p \in LayoutPaths \cup OddPaths} \cup {PathV(Canonical1)}

\* Keyword arguments of explicit-field construction, any subset given
TimeArgs == {NoneV, TimeV(<<2018, 8, 24, 3, 59, 17>>), TimeV(<<2018, 8, 24, 4, 1, 18>>),
             Str(Seq1), Str(Foobar)}

FieldArgs ==
    [unit_id : {NoneV, Str(UnitId(12)), Str(<<"x">>)},
     camera_id : {NoneV, Str(<<"A", "g", "0", "G", "7", "b">>)},
     field_name : {NoneV, Str(<<"H", "d", "1">>)},
     sequence_time : TimeArgs,
     image_time : TimeArgs,
     path : {NoneV}]

\* unit_id_camera_id_timestamp triples, and values that are none
IdArgs(stamps) ==
    {Absent, NoneV, Str(Foobar),
     Str(UnitId(12) \o <<"_">> \o Cam1),
     Str(<<"x", "_">> \o UnitId(12) \o <<"_">> \o Cam1 \o <<"_">> \o Seq1)}
    \cup {Str(UnitId(12) \o <<"_">> \o Cam1 \o <<"_">> \o s) : s \in stamps}

Headers ==
    [FILENAME : {Absent, NoneV, Str(Foobar), Str(Canonical1),
                 Str(Bucket \o Canonical1 \o <<".", "f", "i", "t", "s">>),
                 Str(Layout(<<>>, UnitId(1), <<>>, "/", Cam1,
                            StampChars(<<2018, 13, 1, 0, 0, 0>>), <<>>, Img1, <<>>))},
     SEQID : IdArgs({Seq1, StampChars(<<2018, 13, 1, 0, 0, 0>>), Foobar}),
     IMAGEID : IdArgs({Img1, StampChars(<<2018, 8, 24, 24, 0, 0>>)})]

NoHeader == [FILENAME |-> Absent, SEQID |-> Absent, IMAGEID |-> Absent]

Seps == {Str(<<"_">>), Str(<<"-">>)}

Tmp == <<"/", "t", "m", "p">>

Bases == {NoneV, Str(Tmp), Str(Tmp \o <<"/">>), PathV(Tmp)}

Exts == {NoneV, Str(<<"j", "p", "g">>), Str(<<".", "j", "p", "g">>)}

NoArgs == [base |-> Absent, ext |-> Absent, sep |-> Absent]

(***************************************************************************)
(* The state: the last constructor call (mode, kw, header), the object it  *)
(* returned (obj, <<>> when it raised), the last call of any kind (op,      *)
(* cargs) with what it returned (ret) or raised (err).                     *)
(***************************************************************************)
VARIABLES mode, kw, header, obj, op, cargs, ret, err

\* One call of ObservationInfo.download_images: where it is (dl_pc), the
\* arguments it was given (dargs), its locals output_dir, img_iter (the list
\* the loop walks), pos (how many images the loop has taken) and img_paths,
\* the warnings issued (warned) and the downloads tried with how each
\* ended (attempts).
VARIABLES dl_pc, dargs, output_dir, img_iter, pos, img_paths, warned, attempts

\* One input given to both classes: how it was given (eq_how), the input
\* (eq_input), and what ImagePathInfo and ObservationPathInfo made of it.
VARIABLES eq_how, eq_input, image_info, observation_info

pvars == <<mode, kw, header, obj, op, cargs, ret, err>>

dvars == <<dl_pc, dargs, output_dir, img_iter, pos, img_paths, warned, attempts>>

evars == <<eq_how, eq_input, image_info, observation_info>>

vars == <<pvars, dvars, evars>>

\* A list argument: None, or a list of image names
NoList == [k |-> "None", v |-> <<>>]

List(items) == [k |-> "list", v |-> items]

NoDownloadArgs == [image_list |-> NoList, output_dir |-> NoneV, warn_on_error |-> TRUE]

\* download_images has not been called
DownloadIdle ==
    /\ dl_pc = "idle"
    /\ dargs = NoDownloadArgs
    /\ output_dir = <<>>
    /\ img_iter = <<>>
    /\ pos = 0
    /\ img_paths = <<>>
    /\ warned = <<>>
    /\ attempts = <<>>

\* Neither class has been given the input
EquivIdle ==
    /\ eq_how = "none"
    /\ eq_input = [kw |-> Defaults, header |-> NoHeader]
    /\ image_info = Raise("none", <<>>)
    /\ observation_info = Raise("none", <<>>)

Init ==
    /\ mode = "none"
    /\ kw = Defaults
    /\ header = NoHeader
    /\ obj = <<>>
    /\ op = "none"
    /\ cargs = NoArgs
    /\ ret = Absent
    /\ err = NoError
    /\ DownloadIdle
    /\ EquivIdle

\* What the constructor call leaves: the new object or the exception.  An
\* instance is constructed once (mode = "none" before); the calls that
\* follow are made on it.
Constructed(m, k, h, r) ==
    /\ mode' = m
    /\ kw' = k
    /\ header' = h
    /\ obj' = r.obj
    /\ err' = r.err
    /\ op' = "new"
    /\ cargs' = NoArgs
    /\ ret' = Absent
    /\ UNCHANGED <<dvars, evars>>

\* ImagePathInfo(path=p)
ConstructFromPath ==
    /\ mode = "none"
    /\ \E p \in PathArgs :
        Constructed("path", [Defaults EXCEPT !.path = p], NoHeader, NewFromPath(p))

\* ImagePathInfo(unit_id=..., camera_id=..., ...)
ConstructFromFields ==
    /\ mode = "none"
    /\ \E k \in FieldArgs : Constructed("fields", k, NoHeader, NewFromFields(k))

\* ImagePathInfo.from_fits_header(h)
ConstructFromHeader ==
    /\ mode = "none"
    /\ \E h \in Headers : Constructed("header", Defaults, h, from_fits_header(h))

\* Called that unsets the object's field_name on the way
MutCalledClearsFieldName(name, a, r) ==
    /\ op' = name
    /\ cargs' = a
    /\ ret' = r.ret
    /\ err' = r.err
    /\ obj' = <<[obj[1] EXCEPT !.field_name = NoneV]>>
    /\ UNCHANGED <<mode, kw, header, dvars, evars>>

\* What a call on the object leaves: the object is not touched
Called(name, a, r) ==
    /\ op' = name
    /\ cargs' = a
    /\ ret' = r.ret
    /\ err' = r.err
    /\ UNCHANGED <<mode, kw, header, obj, dvars, evars>>

CallSequenceId ==
    /\ obj # <<>>
    /\ Called("sequence_id", NoArgs, sequence_id(obj[1]))

CallImageId ==
    /\ obj # <<>>
    /\ Called("image_id", NoArgs, image_id(obj[1]))

CallId ==
    /\ obj # <<>>
    /\ Called("id", NoArgs, id(obj[1]))

CallGetFullId ==
    /\ obj # <<>>
    /\ \E sep \in Seps :
           Called("get_full_id", [NoArgs EXCEPT !.sep = sep], get_full_id(obj[1], sep))

CallAsPath ==
    /\ obj # <<>>
    /\ \E base \in Bases, ext \in Exts :
           Called("as_path", [NoArgs EXCEPT !.base = base, !.ext = ext],
                  as_path(obj[1], base, ext))

Next ==
    \/ ConstructFromPath
    \/ ConstructFromFields
    \/ ConstructFromHeader
    \/ CallSequenceId
    \/ CallImageId
    \/ CallId
    \/ CallGetFullId
    \/ CallAsPath

Spec == Init /\ [][Next]_vars

(***************************************************************************)
(* ObservationInfo.download_images.  The observation holds its own          *)
(* sequence_id and image_list; each download_file / shutil.move either      *)
(* goes through or raises, as the network and the disk decide.  What is     *)
(* printed and the progress bar (show_progress) change nothing kept here.   *)
(***************************************************************************)
\* How many images a list given to download_images may hold
MaxImages == 2

ImgA == <<"u", "/", "a">>

ImgB == <<"u", "/", "b">>

ImgC == <<"v", "/", "a">>

Images == {ImgA, ImgB, ImgC}

\* self.image_list of the observation
SelfImageList == <<ImgA, ImgB>>

\* self.sequence_id of the observation
SelfSequenceId == UnitId(12) \o <<"_">> \o Cam1 \o <<"_">> \o Seq1

RECURSIVE Lists(_)
\* The lists of at most n images
Lists(n) == IF n = 0 THEN {<<>>}
            ELSE Lists(n - 1) \cup {<<g>> \o l : g \in Images, l \in Lists(n - 1)}

DownloadArgs ==
    [image_list : {NoList} \cup {List(l) : l \in Lists(MaxImages)},
     output_dir : {NoneV, Str(Tmp)},
     warn_on_error : BOOLEAN]

\* Path(output_dir or self.sequence_id): None and '' are false
OutputDir(a) ==
    IF a.output_dir.k = "None" \/ a.output_dir.s = <<>>
    THEN PosixPath(<<SelfSequenceId>>)
    ELSE PosixPath(<<a.output_dir.s>>)

\* image_list or self.image_list: None and [] are false
ImageList(a) ==
    IF a.image_list.k = "None" \/ a.image_list.v = <<>>
    THEN SelfImageList
    ELSE a.image_list.v

\* Path(img).name
PathName(img) ==
    Split(PosixPath(<<img>>), "/")[Len(Split(PosixPath(<<img>>), "/"))]

\* str(output_dir / Path(img).name)
NewFn(dir, img) == PosixPath(<<dir, PathName(img)>>)

\* The call, up to the loop
DownloadImages ==
    /\ dl_pc = "idle"
    /\ \E a \in DownloadArgs :
        /\ dargs' = a
        /\ output_dir' = OutputDir(a)
        /\ img_iter' = ImageList(a)
    /\ dl_pc' = "loop"
    /\ pos' = 0
    /\ img_paths' = <<>>
    /\ warned' = <<>>
    /\ attempts' = <<>>
    /\ UNCHANGED <<pvars, evars>>

\* One turn of the loop in which download_file and shutil.move go through
DownloadMoved ==
    /\ dl_pc = "loop"
    /\ pos < Len(img_iter)
    /\ pos' = pos + 1
    /\ img_paths' = Append(img_paths, NewFn(output_dir, img_iter[pos + 1]))
    /\ attempts' = Append(attempts, [img |-> img_iter[pos + 1], ok |-> TRUE])
    /\ UNCHANGED <<dl_pc, dargs, output_dir, img_iter, warned, pvars, evars>>

\* One turn of the loop in which the try block raises: a warning, or the
\* exception raised again
DownloadFailed ==
    /\ dl_pc = "loop"
    /\ pos < Len(img_iter)
    /\ pos' = pos + 1
    /\ attempts' = Append(attempts, [img |-> img_iter[pos + 1], ok |-> FALSE])
    /\ IF dargs.warn_on_error
       THEN warned' = Append(warned, img_iter[pos + 1]) /\ dl_pc' = "loop"
       ELSE warned' = warned /\ dl_pc' = "raised"
    /\ UNCHANGED <<dargs, output_dir, img_iter, img_paths, pvars, evars>>

\* return img_paths
DownloadReturn ==
    /\ dl_pc = "loop"
    /\ pos = Len(img_iter)
    /\ dl_pc' = "returned"
    /\ UNCHANGED <<dargs, output_dir, img_iter, pos, img_paths, warned, attempts,
                   pvars, evars>>

DownloadNext ==
    \/ DownloadImages
    \/ DownloadMoved
    \/ DownloadFailed
    \/ DownloadReturn

DownloadSpec == Init /\ [][DownloadNext]_vars

(***************************************************************************)
(* ImagePathInfo and ObservationPathInfo side by side.  The two classes     *)
(* have the same __post_init__, properties, as_path and from_fits_header,   *)
(* line for line; they differ in the order of their fields, which is the    *)
(* order of the positional parameters of the generated __init__.           *)
(***************************************************************************)
\* The fields of ImagePathInfo, in the order of the class body
ImageFields ==
    <<"unit_id", "camera_id", "field_name", "sequence_time", "image_time", "path">>

\* The fields of ObservationPathInfo, in the order of the class body
ObservationFields ==
    <<"path", "unit_id", "camera_id", "field_name", "sequence_time", "image_time">>

\* cls(x): the generated __init__ gives its first positional argument to
\* the first field, the defaults to the rest, then calls __post_init__
Positional(fields, x) == post_init([Defaults EXCEPT ![fields[1]] = x])

\* ObservationPathInfo(path=..., unit_id=..., ...), by keyword
ObservationNew(k) == post_init(k)

\* ObservationPathInfo.from_fits_header(header)
ObservationFromHeader(h) ==
    IF h.FILENAME.k = "absent" THEN Raise("KeyError", <<>>)
    ELSE TryFilename(h, ObservationNew([Defaults EXCEPT !.path = h.FILENAME]))

\* The input given, and what each class returned or raised
Given(how, k, h, image, observation) ==
    /\ eq_how' = how
    /\ eq_input' = [kw |-> k, header |-> h]
    /\ image_info' = image
    /\ observation_info' = observation
    /\ UNCHANGED <<pvars, dvars>>

\* cls(path=p) of both classes
BothFromPath ==
    /\ eq_how = "none"
    /\ \E p \in PathArgs :
           Given("path", [Defaults EXCEPT !.path = p], NoHeader,
                 NewFromPath(p), ObservationNew([Defaults EXCEPT !.path = p]))

\* cls(unit_id=..., ...) of both classes
BothFromFields ==
    /\ eq_how = "none"
    /\ \E k \in FieldArgs :
           Given("fields", k, NoHeader,
                 NewFromFields(k), ObservationNew([k EXCEPT !.path = NoneV]))

\* cls.from_fits_header(h) of both classes
BothFromHeader ==
    /\ eq_how = "none"
    /\ \E h \in Headers :
           Given("header", Defaults, h, from_fits_header(h), ObservationFromHeader(h))

\* cls(x) of both classes, x the one positional argument
BothPositional ==
    /\ eq_how = "none"
    /\ \E x \in PathArgs :
           Given("positional", [Defaults EXCEPT !.path = x], NoHeader,
                 Positional(ImageFields, x), Positional(ObservationFields, x))

EquivNext ==
    \/ BothFromPath
    \/ BothFromFields
    \/ BothFromHeader
    \/ BothPositional

EquivSpec == Init /\ [][EquivNext]_vars

(***************************************************************************)
(* What the claims speak of, stated on the strings themselves.             *)
(***************************************************************************)
\* The str given as path= (<<>> when the argument was no str)
GivenPath == IF kw.path.k = "str" THEN kw.path.s ELSE <<>>

\* A str of the form PAN + 3 digits
IsUnitId(v) == v.k = "str" /\ Len(v.s) = UnitLen /\ UnitAt(v.s, 1)

\* A str of 6 characters in [0-9a-gA-G]
IsCameraId(v) == v.k = "str" /\ Len(v.s) = CamLen /\ CamAt(v.s, 1)

\* t1 <= t2 for two timestamps
Before(t1, t2) ==
    \/ t1 = t2
    \/ \E i \in 1..6 : /\ \A j \in 1..(i - 1) : t1[j] = t2[j]
                       /\ t1[i] < t2[i]

\* The four fields two objects must share
SameFour(o1, o2) ==
    /\ o1.unit_id = o2.unit_id
    /\ o1.camera_id = o2.camera_id
    /\ o1.sequence_time = o2.sequence_time
    /\ o1.image_time = o2.image_time

\* Two constructions end alike: the same kind of exception, or two objects
\* with the same four fields
SameOutcome(r1, r2) ==
    /\ r1.err.kind = r2.err.kind
    /\ (r1.obj = <<>>) = (r2.obj = <<>>)
    /\ r1.obj # <<>> /\ r2.obj # <<>> => SameFour(r1.obj[1], r2.obj[1])

\* s occurs in msg
Contains(msg, s) ==
    \E i \in 0..(Len(msg) - Len(s)) : SubSeq(msg, i + 1, i + Len(s)) = s

\* unit_id SEP camera_id SEP stamp SEP stamp starts at position u of p
PlainAt(p, u) ==
    /\ UnitAt(p, u)
    /\ SepAt(p, u + UnitLen)
    /\ CamAt(p, u + UnitLen + 1)
    /\ SepAt(p, u + UnitLen + 1 + CamLen)
    /\ StampAt(p, u + UnitLen + CamLen + 2)
    /\ SepAt(p, u + UnitLen + CamLen + 2 + StampLen)
    /\ StampAt(p, u + UnitLen + CamLen + StampLen + 3)

\* p is exactly unit_id/camera_id/seq_time/image_time
IsCanonical(p) ==
    /\ PlainAt(p, 1)
    /\ Len(p) = UnitLen + CamLen + StampLen + StampLen + 3
    /\ \A i \in 1..Len(p) : p[i] # "_"

\* p with the segment field inserted between unit_id and camera_id
WithField(p, field) ==
    SubSeq(p, 1, UnitLen) \o <<"/">> \o field \o SubSeq(p, UnitLen + 1, Len(p))

\* p, whose plain layout starts at u, with unit_id_camera_id_sequence_time_
\* inserted between the sequence and the image timestamp
WithRedundant(p, u) ==
    SubSeq(p, 1, u + UnitLen + CamLen + StampLen + 2)
    \o FullIdToken(SubSeq(p, u, u + UnitLen - 1),
                   SubSeq(p, u + UnitLen + 1, u + UnitLen + CamLen),
                   SubSeq(p, u + UnitLen + CamLen + 2, u + UnitLen + CamLen + StampLen + 1))
    \o SubSeq(p, u + UnitLen + CamLen + StampLen + 3, Len(p))

\* The digits of the stamp token at position i of p name a date and a time
NamesDate(p, i) ==
    ValidDate(<<Num(SubSeq(p, i, i + 3)), Num(SubSeq(p, i + 4, i + 5)),
                Num(SubSeq(p, i + 6, i + 7)), Num(SubSeq(p, i + 9, i + 10)),
                Num(SubSeq(p, i + 11, i + 12)), Num(SubSeq(p, i + 13, i + 14))>>)

(***************************************************************************)
(* C1.  Round trip: an object whose unit_id is PAN + 3 digits, whose        *)
(* camera_id is 6 characters of [0-9a-gA-G] and whose timestamps are        *)
(* sequence_time <= image_time gives, by as_path with no base and no        *)
(* extension, a path string that path-mode construction parses back to the *)
(* same unit_id, camera_id, sequence_time and image_time.                   *)
(***************************************************************************)
C1_Case ==
    /\ op = "as_path" /\ cargs.base = NoneV /\ cargs.ext = NoneV
    /\ obj # <<>>
    /\ IsUnitId(obj[1].unit_id) /\ IsCameraId(obj[1].camera_id)
    /\ obj[1].sequence_time.k = "Time" /\ obj[1].image_time.k = "Time"
    /\ Before(obj[1].sequence_time.t, obj[1].image_time.t)

C1_RoundTrip ==
    C1_Case =>
        /\ ret.k = "Path"
        /\ NewFromPath(Str(ret.s)).obj # <<>>
        /\ SameFour(NewFromPath(Str(ret.s)).obj[1], obj[1])

\* An object built from explicit fields, with two different timestamps
C1_Witness ==
    /\ C1_Case
    /\ mode = "fields"
    /\ obj[1].sequence_time # obj[1].image_time
    /\ NewFromPath(Str(ret.s)).obj # <<>>

(***************************************************************************)
(* C2.  Rejection: path-mode construction of a string with no PAN + 3       *)
(* digits token, or without two 8-digit-T-6-digit tokens after such a       *)
(* token, raises the invalid-path ValueError, whose message holds the       *)
(* string given, and returns no object.                                     *)
(***************************************************************************)
HasUnitToken(p) == \E u \in 1..Len(p) : UnitAt(p, u)

HasTwoStampsAfterUnit(p) ==
    \E u \in 1..Len(p) : \E i \in (u + UnitLen)..Len(p) : \E j \in (i + StampLen)..Len(p) :
        UnitAt(p, u) /\ StampAt(p, i) /\ StampAt(p, j)

C2_Case ==
    /\ mode = "path" /\ kw.path.k = "str"
    /\ ~HasUnitToken(GivenPath) \/ ~HasTwoStampsAfterUnit(GivenPath)

C2_Rejection ==
    C2_Case =>
        /\ obj = <<>>
        /\ err.kind = "ValueError"
        /\ SubSeq(err.msg, 1, Len(InvalidPathPrefix)) = InvalidPathPrefix
        /\ Contains(err.msg, GivenPath)

\* A string with a unit token and only one timestamp, rejected
C2_Witness ==
    /\ C2_Case
    /\ HasUnitToken(GivenPath)
    /\ err.kind = "ValueError"
    /\ obj = <<>>

(***************************************************************************)
(* C3.  The parsed unit_id of an accepted path string is the first          *)
(* (leftmost) PAN + 3 digits token of the string.                           *)
(***************************************************************************)
FirstUnitToken(p) ==
    SubSeq(p, Min({u \in 1..Len(p) : UnitAt(p, u)}),
              Min({u \in 1..Len(p) : UnitAt(p, u)}) + UnitLen - 1)

C3_FirstUnit ==
    mode = "path" /\ obj # <<>> => obj[1].unit_id = Str(FirstUnitToken(GivenPath))

(***************************************************************************)
(* C4.  Legacy field-name tolerance: a path unit_id/camera_id/seq_time/     *)
(* image_time with any non-empty field_name segment inserted between        *)
(* unit_id and camera_id parses to the same unit_id, camera_id,             *)
(* sequence_time and image_time as the path without it.                     *)
(***************************************************************************)
C4_FieldTolerance ==
    mode = "path" /\ op = "new" /\ IsCanonical(GivenPath) =>
        \A field \in FieldNames :
            SameOutcome(NewFromPath(Str(WithField(GivenPath, field))),
                        [obj |-> obj, err |-> err])

(***************************************************************************)
(* C5.  Redundant segment tolerance: a path of the plain layout, with the   *)
(* token unit_id_camera_id_sequence_time_ of its own values inserted        *)
(* between the sequence and the image timestamp, parses to the same         *)
(* unit_id, camera_id, sequence_time and image_time as without the token.   *)
(***************************************************************************)
PlainStarts(p) == {u \in 1..Len(p) : PlainAt(p, u)}

C5_Case == mode = "path" /\ op = "new" /\ Cardinality(PlainStarts(GivenPath)) = 1

C5_RedundantTolerance ==
    C5_Case =>
        SameOutcome(NewFromPath(Str(WithRedundant(GivenPath, Min(PlainStarts(GivenPath))))),
                    [obj |-> obj, err |-> err])

\* A plain path that parses, and parses with the token too
C5_Witness ==
    /\ C5_Case
    /\ obj # <<>>
    /\ NewFromPath(Str(WithRedundant(GivenPath, Min(PlainStarts(GivenPath))))).obj # <<>>

(***************************************************************************)
(* C6.  Header fallback: from_fits_header on a header with no usable        *)
(* FILENAME (the key absent, or its value failing the grammar) and with     *)
(* SEQID and IMAGEID each a well-formed unit_id_camera_id_timestamp triple  *)
(* returns an object with unit_id and camera_id from SEQID, sequence_time   *)
(* from SEQID's third token and image_time from IMAGEID's, whose            *)
(* sequence_id and image_id are those of the equivalent path.               *)
(***************************************************************************)
IsTriple(v) ==
    /\ v.k = "str"
    /\ Len(Split(v.s, "_")) = 3
    /\ IsUnitId(Str(Split(v.s, "_")[1]))
    /\ IsCameraId(Str(Split(v.s, "_")[2]))
    /\ Len(Split(v.s, "_")[3]) = StampLen
    /\ StampAt(Split(v.s, "_")[3], 1)
    /\ NamesDate(Split(v.s, "_")[3], 1)

\* unit_id/camera_id/sequence_time/image_time of the two triples
EquivalentPath(seqid, imageid) ==
    JoinWith(Split(seqid, "_") \o <<Split(imageid, "_")[3]>>, "/")

FilenameFailsGrammar ==
    header.FILENAME.k = "str" /\ ~PATH_MATCHER_match(header.FILENAME.s).matched

FallbackToTriples ==
    /\ obj # <<>>
    /\ err = NoError
    /\ obj[1].unit_id = Str(Split(header.SEQID.s, "_")[1])
    /\ obj[1].camera_id = Str(Split(header.SEQID.s, "_")[2])
    /\ SameFour(obj[1], NewFromPath(Str(EquivalentPath(header.SEQID.s, header.IMAGEID.s))).obj[1])
    /\ sequence_id(obj[1])
         = sequence_id(NewFromPath(Str(EquivalentPath(header.SEQID.s, header.IMAGEID.s))).obj[1])
    /\ image_id(obj[1])
         = image_id(NewFromPath(Str(EquivalentPath(header.SEQID.s, header.IMAGEID.s))).obj[1])

C6_HeaderFallback ==
    /\ mode = "header" /\ op = "new"
    /\ header.FILENAME.k = "absent" \/ FilenameFailsGrammar
    /\ IsTriple(header.SEQID) /\ IsTriple(header.IMAGEID)
    => FallbackToTriples

\* C6, the part the code keeps: a FILENAME that is there and fails the grammar
C6_FallbackWhenFilenameFails ==
    /\ mode = "header" /\ op = "new"
    /\ FilenameFailsGrammar
    /\ IsTriple(header.SEQID) /\ IsTriple(header.IMAGEID)
    => FallbackToTriples

(***************************************************************************)
(* C7.  As claimed: in path mode the only failure is the invalid-path       *)
(* error, raised only when the string does not match the grammar; a string  *)
(* that matches constructs an object whatever digits its timestamp tokens   *)
(* hold.                                                                    *)
(***************************************************************************)
C7_Case == mode = "path" /\ kw.path.k = "str"

InvalidPathRaised ==
    /\ obj = <<>>
    /\ err.kind = "ValueError"
    /\ SubSeq(err.msg, 1, Len(InvalidPathPrefix)) = InvalidPathPrefix

C7_OnlyInvalidPath ==
    C7_Case =>
        IF PATH_MATCHER_match(GivenPath).matched
        THEN obj # <<>> /\ err = NoError
        ELSE InvalidPathRaised

(***************************************************************************)
(* C7, amended.  In path mode a string that does not match the grammar      *)
(* raises the invalid-path error; a string that matches constructs an       *)
(* object when both timestamp tokens name a date and a time of day, and     *)
(* raises dateutil's ParserError, returning no object, when one does not.   *)
(***************************************************************************)
BothNameDates(m) == NamesDate(m.sequence_time, 1) /\ NamesDate(m.image_time, 1)

C7_PathModeFailures ==
    C7_Case =>
        IF ~PATH_MATCHER_match(GivenPath).matched THEN InvalidPathRaised
        ELSE IF BothNameDates(PATH_MATCHER_match(GivenPath))
        THEN obj # <<>> /\ err = NoError
        ELSE obj = <<>> /\ err.kind = "ParserError"

\* A string of the grammar whose sequence timestamp is no date
C7_Witness ==
    /\ C7_Case
    /\ PATH_MATCHER_match(GivenPath).matched
    /\ ~NamesDate(PATH_MATCHER_match(GivenPath).sequence_time, 1)
    /\ err.kind = "ParserError"
    /\ obj = <<>>

(***************************************************************************)
(* C8.  Every construction call that returns an object leaves unit_id,      *)
(* camera_id, sequence_time and image_time all set.                         *)
(***************************************************************************)
C8_AllPresent ==
    obj # <<>> =>
        /\ obj[1].unit_id.k # "None"
        /\ obj[1].camera_id.k # "None"
        /\ obj[1].sequence_time.k # "None"
        /\ obj[1].image_time.k # "None"

(***************************************************************************)
(* C9.  Explicit-field construction with a sequence_time or image_time      *)
(* string that is no timestamp raises the timestamp error and returns no    *)
(* object; with strings that parse it returns an object whose two times     *)
(* are timestamps, from which sequence_id, image_id, the full id and        *)
(* as_path can be derived.                                                  *)
(***************************************************************************)
Unparseable(v) == v.k = "str" /\ ~parse_date(v.s).ok

Parseable(v) == v.k = "str" /\ parse_date(v.s).ok

C9_ExplicitTimestamps ==
    mode = "fields" /\ op = "new" =>
        /\ Unparseable(kw.sequence_time) \/ Unparseable(kw.image_time)
             => obj = <<>> /\ err.kind = "ParserError"
        /\ Parseable(kw.sequence_time) /\ Parseable(kw.image_time)
             => /\ obj # <<>>
                /\ obj[1].sequence_time = TimeV(parse_date(kw.sequence_time.s).fields)
                /\ obj[1].image_time = TimeV(parse_date(kw.image_time.s).fields)
                /\ sequence_id(obj[1]).err = NoError
                /\ image_id(obj[1]).err = NoError

(***************************************************************************)
(* C10.  When from_fits_header reaches the SEQID/IMAGEID fallback and       *)
(* SEQID or IMAGEID is absent or is no underscore-joined 3-tuple, the call  *)
(* raises: no object is returned, with defaults or otherwise.              *)
(***************************************************************************)
NotATriple(v) == v.k # "str" \/ Len(Split(v.s, "_")) # 3

C10_Case ==
    /\ mode = "header"
    /\ header.FILENAME.k = "str"
    /\ IsValueError(NewFromPath(header.FILENAME).err)
    /\ NotATriple(header.SEQID) \/ NotATriple(header.IMAGEID)

C10_FallbackFails == C10_Case => obj = <<>> /\ err.kind # "none"

\* SEQID of two tokens: the unpacking raises ValueError
C10_Witness ==
    /\ C10_Case
    /\ header.SEQID.k = "str" /\ header.IMAGEID.k = "str"
    /\ obj = <<>>
    /\ err.kind = "ValueError"

(***************************************************************************)
(* C11.  as_path(base, ext) on an object whose unit_id and camera_id are    *)
(* path segments and whose two times are timestamps returns the path        *)
(* unit_id/camera_id/flatten(sequence_time)/flatten(image_time), the last   *)
(* segment followed by '.' and ext when ext is given, and the whole joined  *)
(* to base when base is given.                                              *)
(***************************************************************************)
\* A str that is one path segment
IsSegment(v) ==
    /\ v.k = "str" /\ v.s # <<>> /\ v.s # <<".">>
    /\ \A i \in 1..Len(v.s) : v.s[i] # "/"

\* base without the slashes it ends with
RECURSIVE StripSlashes(_)
StripSlashes(b) ==
    IF Len(b) > 1 /\ b[Len(b)] = "/" THEN StripSlashes(SubSeq(b, 1, Len(b) - 1))
    ELSE b

\* The last segment: the flattened image time, then '.' + ext if given
LastSegment(self, ext) ==
    IF ext.k = "None" THEN flatten_time(self.image_time).s
    ELSE flatten_time(self.image_time).s \o <<".">> \o ext.s

\* The four-level relative path
FourLevels(self, ext) ==
    self.unit_id.s \o <<"/">> \o self.camera_id.s \o <<"/">>
    \o flatten_time(self.sequence_time).s \o <<"/">> \o LastSegment(self, ext)

C11_Case ==
    /\ op = "as_path" /\ obj # <<>>
    /\ IsSegment(obj[1].unit_id) /\ IsSegment(obj[1].camera_id)
    /\ obj[1].sequence_time.k = "Time" /\ obj[1].image_time.k = "Time"

LastOf(path) == Split(path, "/")[Len(Split(path, "/"))]

C12_SingleDot ==
    /\ C11_Case
    /\ cargs.ext.k = "str" /\ cargs.ext.s # <<>> /\ cargs.ext.s[1] = "."
    => /\ ret.k = "Path"
       /\ LastOf(ret.s) = flatten_time(obj[1].image_time).s \o cargs.ext.s


(***************************************************************************)
(* C13.  On every constructed object sequence_id is unit_id + '_' +         *)
(* camera_id + '_' + flatten(sequence_time), image_id the same with         *)
(* image_time, and the full id (get_full_id(sep), and id with '_') is       *)
(* unit_id, camera_id, flatten(sequence_time), flatten(image_time) joined   *)
(* by sep; field_name is in none of them.                                   *)
(***************************************************************************)
\* The value the claim gives the last call, from the object's fields
Identifier(self, name, sep) ==
    IF name = "sequence_id"
    THEN JoinWith(<<self.unit_id.s, self.camera_id.s,
                    flatten_time(self.sequence_time).s>>, "_")
    ELSE IF name = "image_id"
    THEN JoinWith(<<self.unit_id.s, self.camera_id.s,
                    flatten_time(self.image_time).s>>, "_")
    ELSE self.unit_id.s \o sep \o self.camera_id.s \o sep
         \o flatten_time(self.sequence_time).s \o sep
         \o flatten_time(self.image_time).s

IdentifierCall == op \in {"sequence_id", "image_id", "id", "get_full_id"}

IdentifierAsClaimed ==
    /\ err = NoError
    /\ ret = Str(Identifier(obj[1], op,
                            IF op = "get_full_id" THEN cargs.sep.s ELSE <<"_">>))

C13_Identifiers == IdentifierCall => IdentifierAsClaimed

\* C13, the part the code keeps: the identifiers of an object whose unit_id
\* and camera_id are str and whose two times are timestamps
C13_IdentifiersWhenPopulated ==
    /\ IdentifierCall
    /\ obj[1].unit_id.k = "str" /\ obj[1].camera_id.k = "str"
    /\ obj[1].sequence_time.k = "Time" /\ obj[1].image_time.k = "Time"
    => IdentifierAsClaimed


(***************************************************************************)
(* C14.  Immutability: after construction no call of id, sequence_id,       *)
(* image_id, get_full_id or as_path, with any arguments, changes unit_id,   *)
(* camera_id, field_name, sequence_time, image_time or path, and the call   *)
(* made again with the same arguments returns the same.                     *)
(***************************************************************************)
\* A step taken on an object leaves the object as it was
FieldsKept == obj # <<>> => obj' = obj

\* What the last call gives when made again, on the object as it is now
Again ==
    IF op = "sequence_id" THEN sequence_id(obj[1])
    ELSE IF op = "image_id" THEN image_id(obj[1])
    ELSE IF op = "id" THEN id(obj[1])
    ELSE IF op = "get_full_id" THEN get_full_id(obj[1], cargs.sep)
    ELSE as_path(obj[1], cargs.base, cargs.ext)

SameAgain == op \notin {"none", "new"} => Again = [ret |-> ret, err |-> err]

C14_Immutable == []SameAgain /\ [][FieldsKept]_vars

\* A call made on an object parsed from a path, which still holds the path
\* and the field name it was constructed with
C14_Witness ==
    /\ op = "as_path" /\ mode = "path" /\ obj # <<>>
    /\ obj[1].path = kw.path
    /\ obj[1].field_name.k = "str" /\ obj[1].field_name.s # <<>>
    /\ ret.k = "Path"


(***************************************************************************)
(* C15.  download_images takes the images of the given image_list in list   *)
(* order.  With warn_on_error true a failed download only issues a          *)
(* warning, every remaining image is still tried, and the list returned     *)
(* holds the destinations of the images that downloaded, in list order.     *)
(* With warn_on_error false the first failed download raises and no later   *)
(* image is tried.                                                          *)
(***************************************************************************)
\* The downloads tried so far that went through, and those that failed
Moved == SelectSeq(attempts, LAMBDA a : a.ok)

Failed == SelectSeq(attempts, LAMBDA a : ~a.ok)

\* The images tried so far are the first of the list given, in its order
InListOrder(given) ==
    /\ Len(attempts) <= Len(given)
    /\ \A i \in 1..Len(attempts) : attempts[i].img = given[i]

\* img_paths holds the destination of each image that went through
Destinations ==
    /\ Len(img_paths) = Len(Moved)
    /\ \A i \in 1..Len(Moved) : img_paths[i] = NewFn(output_dir, Moved[i].img)

DownloadAsClaimed(given) ==
    /\ InListOrder(given)
    /\ Destinations
    /\ dl_pc = "returned" => Len(attempts) = Len(given)
    /\ dargs.warn_on_error =>
          /\ dl_pc # "raised"
          /\ Len(warned) = Len(Failed)
          /\ \A i \in 1..Len(Failed) : warned[i] = Failed[i].img
    /\ ~dargs.warn_on_error =>
          /\ warned = <<>>
          /\ Len(Failed) <= 1
          /\ dl_pc = "raised" <=> Failed # <<>>
          /\ Failed # <<>> => ~attempts[Len(attempts)].ok

C15_Download ==
    dl_pc # "idle" /\ dargs.image_list.k = "list" =>
        DownloadAsClaimed(dargs.image_list.v)

\* C15, the part the code keeps: a given list that holds an image
C15_DownloadOfNonEmptyList ==
    dl_pc # "idle" /\ dargs.image_list.k = "list" /\ dargs.image_list.v # <<>> =>
        DownloadAsClaimed(dargs.image_list.v)


(***************************************************************************)
(* C16.  ImagePathInfo and ObservationPathInfo are equivalent: given the    *)
(* same input, by keyword (path=, explicit fields, from_fits_header) or as  *)
(* the one positional argument, both raise the same kind of error or both   *)
(* return objects with equal unit_id, camera_id, field_name,                *)
(* sequence_time, image_time, sequence_id, image_id, full id and as_path.   *)
(***************************************************************************)
\* Two objects with equal fields and equal derived values
EqualObjects(o1, o2) ==
    /\ SameFour(o1, o2)
    /\ o1.field_name = o2.field_name
    /\ sequence_id(o1) = sequence_id(o2)
    /\ image_id(o1) = image_id(o2)
    /\ id(o1) = id(o2)
    /\ \A sep \in Seps : get_full_id(o1, sep) = get_full_id(o2, sep)
    /\ \A base \in Bases, ext \in Exts : as_path(o1, base, ext) = as_path(o2, base, ext)

BothAlike ==
    /\ image_info.err.kind = observation_info.err.kind
    /\ (image_info.obj = <<>>) = (observation_info.obj = <<>>)
    /\ image_info.obj # <<>> /\ observation_info.obj # <<>>
         => EqualObjects(image_info.obj[1], observation_info.obj[1])

C16_Equivalent == eq_how # "none" => BothAlike

\* C16, the part the code keeps: the input given by keyword
C16_EquivalentByKeyword == eq_how \in {"path", "fields", "header"} => BothAlike


=============================================================================
